---- MODULE Spec2Model ----
(***************************************************************************)
(* Model of heravelli/mcp-server-examples:                                 *)
(*   server.py            the FastMCP tools calculate_toll, run_sql_query   *)
(*                        and run_snowflake_query (submit / poll /          *)
(*                        translate)                                        *)
(*   streamlit_client.py  the chat handler and process_command              *)
(* Strings that the code searches or parses are sequences of one-character  *)
(* strings; messages built with f-strings are sequences of segments.        *)
(***************************************************************************)
EXTENDS Integers, Sequences, FiniteSets, TLC

VARIABLES
    env,            \* names of the environment variables that are set
    tool,           \* tool the server is running: "none" when idle
    pc,             \* position inside the running tool
    statement,      \* Databricks statement handle as the code reads it
    submitted,      \* execute_statement returned a handle
    firstState,     \* state of the handle as execute_statement returned it
    sleeps,         \* asyncio.sleep(2) calls of this invocation (saturating)
    refreshes,      \* statement.refresh() calls of this invocation (saturating)
    refreshRaised,  \* a refresh call raised
    conn,           \* Snowflake connection: "none", "open", "closed"
    cursor,         \* Snowflake cursor after execute: description and rows
    snowOps,        \* blocking Snowflake operations, each with its thread
    outcome,        \* what the invocation returned or raised
    tollRequest,    \* arguments of the running calculate_toll invocation
    clientEnv,      \* front-end: names of the gateway variables that are set
    messages,       \* front-end: st.session_state.messages, the transcript
    chatPc,         \* front-end: position of the chat handler
    user_input,     \* front-end: the text typed into st.chat_input
    given,          \* what the author of user_input wrote into it (ghost)
    branch,         \* branch process_command took for user_input
    calls,          \* client.call_tool invocations made for user_input
    translated,     \* texts passed to generate_sql_query for user_input
    query,          \* front-end: the local query of process_command
    raised          \* front-end: str(e) of the exception the handler caught

serverVars == <<env, tool, pc, statement, submitted, firstState, sleeps, refreshes,
                refreshRaised, conn, cursor, snowOps, outcome, tollRequest>>

chatVars == <<clientEnv, messages, chatPc, user_input, given, branch, calls, translated,
              query, raised>>

vars == <<serverVars, chatVars>>

----------------------------------------------------------------------------
(* Bounds *)

MaxRows == 2        \* rows in a result set
MaxPolls == 16      \* saturation point of the sleep / refresh counters

(* Program constants *)

PollInterval == 2   \* asyncio.sleep(2)
WaitTimeout == 30   \* wait_timeout="30s"

----------------------------------------------------------------------------
(* Generic helpers *)

Min(a, b) == IF a < b THEN a ELSE b

Range(s) == {s[i] : i \in DOMAIN s}

SeqsUpTo(S, n) == UNION {[1..k -> S] : k \in 0..n}

----------------------------------------------------------------------------
(* Text: a string is a sequence of one-character strings *)

Digits == {"0", "1", "2", "3", "4", "5", "6", "7", "8", "9"}

LowerMap ==
    [A |-> "a", B |-> "b", C |-> "c", D |-> "d", E |-> "e", F |-> "f", G |-> "g",
     H |-> "h", I |-> "i", J |-> "j", K |-> "k", L |-> "l", M |-> "m", N |-> "n",
     O |-> "o", P |-> "p", Q |-> "q", R |-> "r", S |-> "s", T |-> "t", U |-> "u",
     V |-> "v", W |-> "w", X |-> "x", Y |-> "y", Z |-> "z"]

Letters == DOMAIN LowerMap \cup Range(LowerMap)

\* \d, \s, \w and . of the re module
IsDigit(c) == c \in Digits

IsSpace(c) == c \in {" ", "\t", "\n", "\r"}

IsWord(c) == c \in Letters \cup Digits \cup {"_"}

IsDot(c) == c # "\n"

DigitVal(c) == CHOOSE n \in 0..9 : <<"0", "1", "2", "3", "4", "5", "6", "7", "8", "9">>[n + 1] = c

\* str.lower()
Lower(s) == [i \in 1..Len(s) |-> IF s[i] \in DOMAIN LowerMap THEN LowerMap[s[i]] ELSE s[i]]

\* str.strip()
Strip(s) ==
    LET keep == {i \in 1..Len(s) : ~IsSpace(s[i])}
    IN IF keep = {} THEN <<>>
       ELSE SubSeq(s, CHOOSE i \in keep : \A j \in keep : i <= j,
                      CHOOSE i \in keep : \A j \in keep : j <= i)

\* pat occurs in s at position i
MatchAt(s, pat, i) ==
    /\ i >= 1
    /\ i + Len(pat) - 1 <= Len(s)
    /\ \A k \in 1..Len(pat) : s[i + k - 1] = pat[k]

\* pat in s
Contains(s, pat) == \E i \in 1..(Len(s) + 1) : MatchAt(s, pat, i)

\* c belongs to the character class \d, \s, \w or .
InClass(c, class) ==
    IF class = "d" THEN IsDigit(c)
    ELSE IF class = "s" THEN IsSpace(c)
    ELSE IF class = "w" THEN IsWord(c)
    ELSE IsDot(c)

\* last position of the longest run of characters of a class that starts at
\* i (i - 1 when the run is empty): a greedy X* of the re module
RunEnd(s, i, class) ==
    LET stops == {j \in i..Len(s) : ~InClass(s[j], class)}
    IN IF stops = {} THEN Len(s)
       ELSE (CHOOSE j \in stops : \A k \in stops : j <= k) - 1

\* the smallest member of a non-empty set of positions: re.search returns the
\* leftmost match
Leftmost(S) == CHOOSE i \in S : \A j \in S : i <= j

\* last position of \d+\.?\d* matched greedily at i, or 0 when s[i] is no
\* digit. Whatever follows the group in the patterns below is neither a digit
\* nor a dot, so backtracking never yields a shorter group.
NumberEnd(s, i) ==
    IF i > Len(s) \/ i < 1 THEN 0
    ELSE IF ~IsDigit(s[i]) THEN 0
    ELSE LET e1 == RunEnd(s, i, "d")
         IN IF e1 < Len(s) /\ s[e1 + 1] = "." THEN RunEnd(s, e1 + 2, "d") ELSE e1

RECURSIVE DigitsVal(_)
DigitsVal(s) ==
    IF s = <<>> THEN 0
    ELSE 10 * DigitsVal(SubSeq(s, 1, Len(s) - 1)) + DigitVal(s[Len(s)])

\* float(g) for g matching \d+\.?\d*, in hundredths; the texts of the model
\* have at most two decimals
Float(g) ==
    LET dots == {i \in 1..Len(g) : g[i] = "."}
        dot == IF dots = {} THEN Len(g) + 1 ELSE Leftmost(dots)
        frac == SubSeq(g, dot + 1, Len(g))
    IN 100 * DigitsVal(SubSeq(g, 1, dot - 1))
       + (IF Len(frac) = 0 THEN 0
          ELSE IF Len(frac) = 1 THEN 10 * DigitVal(frac[1])
          ELSE 10 * DigitVal(frac[1]) + DigitVal(frac[2]))

----------------------------------------------------------------------------
(* Environment *)

WAREHOUSE_ID == "DATABRICKS_SQL_WAREHOUSE_ID"

SnowflakeVars == {"SNOWFLAKE_ACCOUNT", "SNOWFLAKE_USER", "SNOWFLAKE_PASSWORD",
                  "SNOWFLAKE_DATABASE", "SNOWFLAKE_SCHEMA", "SNOWFLAKE_WAREHOUSE"}

ServerVars == {WAREHOUSE_ID} \cup SnowflakeVars

GatewayVars == {"NLP_GATEWAY_URL", "NLP_MODEL_NAME"}

\* the gateway variables set, or one of the two missing
ClientEnvs == {GatewayVars} \cup {GatewayVars \ {v} : v \in GatewayVars}

\* every variable set, exactly one missing, or none set
Envs == {ServerVars} \cup {ServerVars \ {v} : v \in ServerVars} \cup {{}}

----------------------------------------------------------------------------
(* Remote engines: what they can answer *)

PendingStates == {"PENDING", "RUNNING"}

\* states a Databricks statement can report
States == {"PENDING", "RUNNING", "SUCCEEDED", "FAILED", "CANCELED", "CLOSED"}

ErrorDetails == {"syntax error", "table not found"}

\* failures of the remote calls themselves (network, authentication)
RemoteFailures == {"connection reset"}

ColumnLists == {<<"a">>, <<"a", "b">>, <<"b", "a">>, <<"a", "a">>}

Cells == {1, 2}

RowLists(k) == SeqsUpTo([1..k -> Cells], MaxRows)

\* a result set: rows positionally aligned with the column descriptors; a
\* result without columns has no rows
ResultSets ==
    {[columns |-> <<>>, rows |-> <<>>]} \cup
    UNION {{[columns |-> c, rows |-> r] : r \in RowLists(Len(c))} : c \in ColumnLists}

\* statement.result of a finished statement: data_array is None (has_data
\* FALSE) only when there is no row; schema may be None (has_schema FALSE)
Payloads ==
    {p \in {[has_data |-> d, data_array |-> rs.rows, has_schema |-> sc, fields |-> rs.columns] :
                rs \in ResultSets, d \in BOOLEAN, sc \in BOOLEAN} :
        p.has_data \/ p.data_array = <<>>}

NoPayload == [has_data |-> FALSE, data_array |-> <<>>, has_schema |-> FALSE, fields |-> <<>>]

NoStatement == [state |-> "NONE", error |-> "", result |-> NoPayload]

\* the handles execute_statement or refresh can produce
Handles ==
    {[state |-> s, error |-> "", result |-> NoPayload] : s \in States \ {"SUCCEEDED", "FAILED"}}
    \cup {[state |-> "FAILED", error |-> e, result |-> NoPayload] : e \in ErrorDetails}
    \cup {[state |-> "SUCCEEDED", error |-> "", result |-> p] : p \in Payloads}

\* cursor.description / fetchall() of a Snowflake cursor after execute: the
\* description is None (has_description FALSE) only without a result set
Cursors ==
    {c \in {[has_description |-> d, description |-> rs.columns, rows |-> rs.rows] :
                rs \in ResultSets, d \in BOOLEAN} :
        c.has_description \/ (c.description = <<>> /\ c.rows = <<>>)}

NoCursor == [has_description |-> FALSE, description |-> <<>>, rows |-> <<>>]

----------------------------------------------------------------------------
(* Result translation *)

\* dict(zip(columns, row)): zip stops at the shorter sequence, a repeated key
\* keeps the value of its last position
DictZip(columns, row) ==
    LET n == Min(Len(columns), Len(row))
        last(k) == CHOOSE i \in 1..n : columns[i] = k /\ \A j \in (i+1)..n : columns[j] # k
    IN [k \in {columns[i] : i \in 1..n} |-> row[last(k)]]

\* [dict(zip(columns, row)) for row in rows]
ZipRows(columns, rows) == [i \in 1..Len(rows) |-> DictZip(columns, rows[i])]

\* line 55 without the schema test
TranslateSqlNoSchemaTest(result) ==
    LET results == IF result.has_data THEN result.data_array ELSE <<>>
    IN IF results # <<>> THEN ZipRows(result.fields, results) ELSE <<>>

\* server.py 51, 55-58: data_array or [], then the schema test
TranslateSql(result) ==
    LET results == IF result.has_data THEN result.data_array ELSE <<>>
    IN IF results # <<>> /\ result.has_schema
       THEN ZipRows(result.fields, results)
       ELSE <<>>

\* server.py 98-100
TranslateSnowflake(cur) ==
    LET columns == IF cur.has_description /\ cur.description # <<>>
                   THEN cur.description ELSE <<>>
    IN IF columns # <<>> THEN ZipRows(columns, cur.rows) ELSE <<>>

----------------------------------------------------------------------------
(* Outcomes *)

NoOutcome == [kind |-> "none", rows |-> <<>>, msg |-> <<>>, value |-> -1]

Returned(rows) == [kind |-> "rows", rows |-> rows, msg |-> <<>>, value |-> -1]

\* a number returned, in hundredths
ReturnedValue(v) == [kind |-> "value", rows |-> <<>>, msg |-> <<>>, value |-> v]

\* raise RuntimeError(f"{prefix}{str(e)}")
Raised(prefix, e) == [kind |-> "error", rows |-> <<>>, msg |-> <<prefix>> \o e, value |-> -1]

\* no calculate_toll invocation running
NoTollRequest == [vehicle_type |-> <<>>, distance |-> -1, toll_rate |-> -1]

\* a chat input without parameters
NoGiven == [vehicle |-> <<>>, distance |-> -1, rate |-> -1, rate_first |-> FALSE]

----------------------------------------------------------------------------
(* run_sql_query, server.py 29-61 *)

SqlPrefix == "SQL query failed: "

\* variants of the loop test, as a slip in line 46 would write them
PollAgainUntilFailed(state) == state # "FAILED"

PollAgainNotDone(state) == state \notin {"SUCCEEDED", "FAILED"}

PollAgainPendingOnly(state) == state = "PENDING"

\* the while condition of poll_results
PollAgain(state) == state \in {"PENDING", "RUNNING"}

Bump(n) == Min(n + 1, MaxPolls)

\* lines 33-34: not warehouse_id
WarehouseMissing(e) == WAREHOUSE_ID \notin e

\* line 35
WarehouseNotSet == <<WAREHOUSE_ID, " not set">>

\* lines 32-43: warehouse id test, then execute_statement
SqlSubmit ==
    /\ pc = "idle"
    /\ tool' = "run_sql_query"
    /\ IF WarehouseMissing(env)
       THEN /\ outcome' = Raised(SqlPrefix, WarehouseNotSet)
            /\ pc' = "done"
            /\ UNCHANGED <<statement, submitted, firstState>>
       ELSE \/ \E f \in RemoteFailures :
                 /\ outcome' = Raised(SqlPrefix, <<f>>)
                 /\ pc' = "done"
                 /\ UNCHANGED <<statement, submitted, firstState>>
            \/ \E h \in Handles :
                 /\ statement' = h
                 /\ submitted' = TRUE
                 /\ firstState' = h.state
                 /\ pc' = IF PollAgain(h.state) THEN "sleep" ELSE "finish"
                 /\ UNCHANGED outcome
    /\ UNCHANGED <<tollRequest, env, sleeps, refreshes, refreshRaised, conn, cursor,
                   snowOps, chatVars>>

\* line 47: await asyncio.sleep(2)
Sleep ==
    /\ pc = "sleep"
    /\ sleeps' = Bump(sleeps)
    /\ pc' = "refresh"
    /\ UNCHANGED <<tollRequest, env, tool, statement, submitted, firstState, refreshes,
                   refreshRaised, conn, cursor, snowOps, outcome, chatVars>>

\* line 48 and the loop test of line 46: statement.refresh()
Refresh ==
    /\ pc = "refresh"
    /\ refreshes' = Bump(refreshes)
    /\ \/ \E f \in RemoteFailures :
            /\ refreshRaised' = TRUE
            /\ outcome' = Raised(SqlPrefix, <<f>>)
            /\ pc' = "done"
            /\ UNCHANGED statement
       \/ \E h \in Handles :
            /\ statement' = h
            /\ pc' = IF PollAgain(h.state) THEN "sleep" ELSE "finish"
            /\ UNCHANGED <<refreshRaised, outcome>>
    /\ UNCHANGED <<tollRequest, env, tool, submitted, firstState, sleeps, conn, cursor,
                   snowOps, chatVars>>

\* line 49 as a test for the FAILED state alone
PollResultFailedOnly(st) ==
    IF st.state = "FAILED"
    THEN Raised(SqlPrefix, <<"Query failed: ", st.error>>)
    ELSE Returned(TranslateSql(st.result))

\* line 50 without the engine's error detail
PollResultNoDetail(st) ==
    IF st.state # "SUCCEEDED"
    THEN Raised(SqlPrefix, <<"Query failed">>)
    ELSE Returned(TranslateSql(st.result))

\* lines 49-51
PollResult(st) ==
    IF st.state # "SUCCEEDED"
    THEN Raised(SqlPrefix, <<"Query failed: ", st.error>>)
    ELSE Returned(TranslateSql(st.result))

\* lines 49-61: the end of poll_results, the translation, the except clause
SqlFinish ==
    /\ pc = "finish"
    /\ outcome' = PollResult(statement)
    /\ pc' = "done"
    /\ UNCHANGED <<tollRequest, env, tool, statement, submitted, firstState, sleeps, refreshes,
                   refreshRaised, conn, cursor, snowOps, chatVars>>

----------------------------------------------------------------------------
(* run_snowflake_query, server.py 63-108 *)

SnowPrefix == "Snowflake query failed: "

\* a test that passes as soon as one of the six variables is set
SnowflakeMissingAll(e) == SnowflakeVars \cap e = {}

\* lines 74-81: not all([account, user, password, database, schema, warehouse])
SnowflakeMissing(e) == ~(SnowflakeVars \subseteq e)

\* line 82
SnowflakeNotSet == <<"Missing one or more Snowflake environment variables.">>

\* lines 69-93: credentials test, then snowflake.connector.connect on the
\* event-loop thread
SnowConnect ==
    /\ pc = "idle"
    /\ tool' = "run_snowflake_query"
    /\ IF SnowflakeMissing(env)
       THEN /\ outcome' = Raised(SnowPrefix, SnowflakeNotSet)
            /\ pc' = "done"
            /\ UNCHANGED <<conn, snowOps>>
       ELSE \/ \E f \in RemoteFailures :
                 /\ outcome' = Raised(SnowPrefix, <<f>>)
                 /\ pc' = "done"
                 /\ UNCHANGED <<conn, snowOps>>
            \/ /\ conn' = "open"
               /\ snowOps' = Append(snowOps, <<"connect", "loop">>)
               /\ pc' = "execute"
               /\ UNCHANGED outcome
    /\ UNCHANGED <<tollRequest, env, statement, submitted, firstState, sleeps, refreshes,
                   refreshRaised, cursor, chatVars>>

\* what the except clause of line 107 does with a failure raised in the
\* worker: conn.close() of line 104 is not reached
WorkerRaised(f) ==
    /\ outcome' = Raised(SnowPrefix, <<f>>)
    /\ pc' = "done"
    /\ UNCHANGED conn

\* lines 96-97, in the executor thread: conn.cursor() and cur.execute(q)
SnowExecute ==
    /\ pc = "execute"
    /\ snowOps' = Append(snowOps, <<"execute", "worker">>)
    /\ \/ \E f \in RemoteFailures \cup ErrorDetails :
            /\ WorkerRaised(f)
            /\ UNCHANGED cursor
       \/ \E c \in Cursors :
            /\ cursor' = c
            /\ pc' = "fetch"
            /\ UNCHANGED <<conn, outcome>>
    /\ UNCHANGED <<tollRequest, env, tool, statement, submitted, firstState, sleeps, refreshes,
                   refreshRaised, chatVars>>

\* lines 98-100, in the executor thread: cur.fetchall() and the translation
SnowFetch ==
    /\ pc = "fetch"
    /\ snowOps' = Append(snowOps, <<"fetchall", "worker">>)
    /\ \/ \E f \in RemoteFailures : WorkerRaised(f)
       \/ /\ pc' = "close"
          /\ UNCHANGED <<conn, outcome>>
    /\ UNCHANGED <<tollRequest, env, tool, statement, submitted, firstState, sleeps, refreshes,
                   refreshRaised, cursor, chatVars>>

\* lines 103-105: back on the event loop, conn.close() and return results
SnowClose ==
    /\ pc = "close"
    /\ conn' = "closed"
    /\ snowOps' = Append(snowOps, <<"close", "loop">>)
    /\ outcome' = Returned(TranslateSnowflake(cursor))
    /\ pc' = "done"
    /\ UNCHANGED <<tollRequest, env, tool, statement, submitted, firstState, sleeps, refreshes,
                   refreshRaised, cursor, chatVars>>

----------------------------------------------------------------------------
(* calculate_toll, server.py 22-27 *)

Car == <<"c", "a", "r">>

Truck == <<"t", "r", "u", "c", "k">>

Motorcycle == <<"m", "o", "t", "o", "r", "c", "y", "c", "l", "e">>

\* a lookup without lower()
MultiplierCaseSensitive(vehicle_type) ==
    LET v == vehicle_type
    IN IF v = Car THEN 10 ELSE IF v = Truck THEN 15 ELSE IF v = Motorcycle THEN 8 ELSE 10

\* rates.get(vehicle_type.lower(), 1.0), in tenths
Multiplier(vehicle_type) ==
    LET v == Lower(vehicle_type)
    IN IF v = Car THEN 10 ELSE IF v = Truck THEN 15 ELSE IF v = Motorcycle THEN 8 ELSE 10

\* round(distance * toll_rate * multiplier, 2), in hundredths. The product is
\* a binary float: when the exact product lies midway between two hundredths
\* the float may lie on either side, so both neighbours are possible.
CalculateToll(vehicle_type, distance, toll_rate) ==
    LET p == distance * toll_rate * Multiplier(vehicle_type)
        q == p \div 1000
        r == p % 1000
    IN IF r < 500 THEN {q} ELSE IF r > 500 THEN {q + 1} ELSE {q, q + 1}

\* vehicle types, distances and rates (in hundredths) the tool is called with
TollVehicles == {Car, <<"T", "R", "U", "C", "K">>, <<"b", "i", "c", "y", "c", "l", "e">>, <<"M", "o", "t", "o", "r", "c", "y", "c", "l", "e">>}

TollDistances == {0, 5, 1000, 1234}

TollRates == {10, 25, 333}

\* lines 22-27: the whole tool, which awaits nothing
TollCall ==
    /\ pc = "idle"
    /\ tool' = "calculate_toll"
    /\ \E v \in TollVehicles, d \in TollDistances, r \in TollRates :
         /\ tollRequest' = [vehicle_type |-> v, distance |-> d, toll_rate |-> r]
         /\ \E t \in CalculateToll(v, d, r) : outcome' = ReturnedValue(t)
    /\ pc' = "done"
    /\ UNCHANGED <<env, statement, submitted, firstState, sleeps, refreshes,
                   refreshRaised, conn, cursor, snowOps, chatVars>>

----------------------------------------------------------------------------
(* The server *)

\* the tool's result or error goes back to the caller; the locals of the
\* invocation are gone
Respond ==
    /\ pc = "done"
    /\ pc' = "idle"
    /\ tool' = "none"
    /\ statement' = NoStatement
    /\ submitted' = FALSE
    /\ firstState' = "NONE"
    /\ sleeps' = 0
    /\ refreshes' = 0
    /\ refreshRaised' = FALSE
    /\ conn' = "none"
    /\ cursor' = NoCursor
    /\ snowOps' = <<>>
    /\ outcome' = NoOutcome
    /\ tollRequest' = NoTollRequest
    /\ UNCHANGED <<env, chatVars>>

\* the server process after start-up: no tool running
ServerIdle ==
    /\ tool = "none"
    /\ pc = "idle"
    /\ statement = NoStatement
    /\ submitted = FALSE
    /\ firstState = "NONE"
    /\ sleeps = 0
    /\ refreshes = 0
    /\ refreshRaised = FALSE
    /\ conn = "none"
    /\ cursor = NoCursor
    /\ snowOps = <<>>
    /\ outcome = NoOutcome
    /\ tollRequest = NoTollRequest

\* a front-end session before its first input
ChatIdle ==
    /\ messages = <<>>
    /\ chatPc = "ready"
    /\ user_input = <<>>
    /\ given = NoGiven
    /\ branch = "none"
    /\ calls = <<>>
    /\ translated = <<>>
    /\ query = <<>>
    /\ raised = <<>>

Init ==
    /\ env \in Envs
    /\ ServerIdle
    /\ clientEnv = GatewayVars
    /\ ChatIdle

Next ==
    \/ SqlSubmit
    \/ Sleep
    \/ Refresh
    \/ SqlFinish
    \/ SnowConnect
    \/ SnowExecute
    \/ SnowFetch
    \/ SnowClose
    \/ TollCall
    \/ Respond

Spec == Init /\ [][Next]_vars

\* a refresh that brings a state for which the loop stops
RefreshSettled == Refresh /\ ~PollAgain(statement'.state)

\* The event loop runs every ready step of the coroutine; the engine is
\* assumed to report a state that ends the loop at some refresh.
LiveSpec ==
    /\ Init /\ [][Next]_vars
    /\ WF_vars(Sleep) /\ WF_vars(Refresh) /\ WF_vars(SqlFinish)
    /\ SF_vars(RefreshSettled)

----------------------------------------------------------------------------
(* process_command, streamlit_client.py 83-124: classification and parsing *)

KeySecretWord == <<"s", "e", "c", "r", "e", "t", " ", "w", "o", "r", "d">>

KeyCalculateToll == <<"c", "a", "l", "c", "u", "l", "a", "t", "e", " ", "t", "o", "l", "l">>

KeyRunSqlQuery == <<"r", "u", "n", " ", "s", "q", "l", " ", "q", "u", "e", "r", "y">>

PatFor == <<"f", "o", "r">>

PatMiles == <<"m", "i", "l", "e", "s">>

PatMile == <<"m", "i", "l", "e">>

DefaultDistance == 1000     \* 10.0, in hundredths

DefaultRate == 25           \* 0.25, in hundredths

\* line 85: command.lower().strip()
Command(u) == Strip(Lower(u))

\* a chain that tests "calculate toll" before "secret word"
ClassifyTollFirst(c) ==
    IF Contains(c, KeyCalculateToll) THEN "calculate_toll"
    ELSE IF Contains(c, KeySecretWord) THEN "secret_word"
    ELSE IF Contains(c, KeyRunSqlQuery) THEN "run_sql_query"
    ELSE "nlp"

\* lines 87, 90, 104, 114: the if / elif chain
Classify(c) ==
    IF Contains(c, KeySecretWord) THEN "secret_word"
    ELSE IF Contains(c, KeyCalculateToll) THEN "calculate_toll"
    ELSE IF Contains(c, KeyRunSqlQuery) THEN "run_sql_query"
    ELSE "nlp"

\* line 91: re.search(r"for\s+(\w+)", command), group 1 or <<>> for None
VehicleMatch(c) ==
    LET word(i) == RunEnd(c, i + 3, "s") + 1
        ok(i) == /\ MatchAt(c, PatFor, i)
                 /\ i + 3 <= Len(c) /\ IsSpace(c[i + 3])
                 /\ word(i) <= Len(c) /\ IsWord(c[word(i)])
        starts == {i \in 1..Len(c) : ok(i)}
    IN IF starts = {} THEN <<>>
       ELSE LET w == word(Leftmost(starts)) IN SubSeq(c, w, RunEnd(c, w, "w"))

\* line 92: re.search(r"(\d+\.?\d*)\s+miles", command), group 1 or <<>>
DistanceMatch(c) ==
    LET ok(i) == LET e == NumberEnd(c, i)
                 IN /\ e > 0 /\ e < Len(c) /\ IsSpace(c[e + 1])
                    /\ MatchAt(c, PatMiles, RunEnd(c, e + 1, "s") + 1)
        starts == {i \in 1..Len(c) : ok(i)}
    IN IF starts = {} THEN <<>>
       ELSE LET i == Leftmost(starts) IN SubSeq(c, i, NumberEnd(c, i))

\* line 93: re.search(r"\$?(\d+\.?\d*)\s*/?\s*mile", command), group 1 or <<>>
RateMatch(c) ==
    LET tail(g) == LET e == NumberEnd(c, g)
                       p1 == RunEnd(c, e + 1, "s") + 1
                       p2 == IF p1 <= Len(c) /\ c[p1] = "/" THEN p1 + 1 ELSE p1
                       p3 == RunEnd(c, p2, "s") + 1
                   IN e > 0 /\ MatchAt(c, PatMile, p3)
        ok(i) == (c[i] = "$" /\ tail(i + 1)) \/ tail(i)
        starts == {i \in 1..Len(c) : ok(i)}
    IN IF starts = {} THEN <<>>
       ELSE LET i == Leftmost(starts)
                g == IF c[i] = "$" THEN i + 1 ELSE i
            IN SubSeq(c, g, NumberEnd(c, g))

\* line 108 reading group(0), the whole match, instead of group(1)
QueryMatchWholeMatch(c) ==
    LET n == Len(KeyRunSqlQuery)
        ok(i) == /\ MatchAt(c, KeyRunSqlQuery, i)
                 /\ i + n + 1 <= Len(c)
                 /\ IsSpace(c[i + n])
        starts == {i \in 1..Len(c) : ok(i)}
    IN IF starts = {} THEN <<>>
       ELSE SubSeq(c, Leftmost(starts), RunEnd(c, Leftmost(starts), "."))

\* line 105: re.search(r"run sql query\s+(.+)", command), group 1 or <<>>.
\* \s+ gives back one space to .+ when nothing else follows.
QueryMatch(c) ==
    LET n == Len(KeyRunSqlQuery)
        ok(i) == /\ MatchAt(c, KeyRunSqlQuery, i)
                 /\ i + n + 1 <= Len(c)
                 /\ IsSpace(c[i + n])
                 /\ IsDot(c[Min(RunEnd(c, i + n, "s") + 1, Len(c))])
        starts == {i \in 1..Len(c) : ok(i)}
    IN IF starts = {} THEN <<>>
       ELSE LET i == Leftmost(starts)
                w == Min(RunEnd(c, i + n, "s") + 1, Len(c))
            IN SubSeq(c, w, RunEnd(c, w, "."))

NoArgs == [vehicle_type |-> <<>>, distance |-> -1, toll_rate |-> -1, query |-> <<>>]

ToolCall(name, args) == [name |-> name, args |-> args]

\* lines 95-97: the arguments of calculate_toll
TollArgs(c) ==
    [vehicle_type |-> IF VehicleMatch(c) # <<>> THEN VehicleMatch(c) ELSE Car,
     distance |-> IF DistanceMatch(c) # <<>> THEN Float(DistanceMatch(c)) ELSE DefaultDistance,
     toll_rate |-> IF RateMatch(c) # <<>> THEN Float(RateMatch(c)) ELSE DefaultRate,
     query |-> <<>>]

\* line 108-109: the argument of run_sql_query on the direct path
SqlArgs(q) == [vehicle_type |-> <<>>, distance |-> -1, toll_rate |-> -1, query |-> q]

----------------------------------------------------------------------------
(* The chat inputs of the model *)

MaxCommands == 2    \* chat inputs of one session

VehicleParts ==
    {[text |-> <<>>, val |-> <<>>],
     [text |-> <<" ", "f", "o", "r", " ", "t", "r", "u", "c", "k">>, val |-> Truck]}

DistanceParts ==
    {[text |-> <<>>, val |-> -1],
     [text |-> <<",", " ", "1", "2", " ", "m", "i", "l", "e", "s">>, val |-> 1200],
     [text |-> <<",", " ", "7", ".", "5", " ", "m", "i", "l", "e", "s">>, val |-> 750]}

RateParts ==
    {[text |-> <<>>, val |-> -1],
     [text |-> <<",", " ", "$", "0", ".", "3", "0", "/", "m", "i", "l", "e">>, val |-> 30]}

\* "Calculate toll" followed by any of vehicle, distance, rate, in the order of
\* the placeholder of st.chat_input (line 72); one input with the rate first
TollInputs ==
    {[text |-> <<"C", "a", "l", "c", "u", "l", "a", "t", "e", " ", "t", "o", "l", "l">> \o v.text \o d.text \o r.text,
      given |-> [vehicle |-> v.val, distance |-> d.val, rate |-> r.val,
                 rate_first |-> FALSE]] :
        v \in VehicleParts, d \in DistanceParts, r \in RateParts}
    \cup {[text |-> <<"C", "a", "l", "c", "u", "l", "a", "t", "e", " ", "t", "o", "l", "l", " ", "f", "o", "r", " ", "t", "r", "u", "c", "k", ",", " ", "$", "0", ".", "3", "0", "/", "m", "i", "l", "e", ",", " ", "1", "2", " ", "m", "i", "l", "e", "s">>,
           given |-> [vehicle |-> Truck, distance |-> 1200, rate |-> 30,
                      rate_first |-> TRUE]]}

OtherTexts ==
    {<<"G", "e", "t", " ", "s", "e", "c", "r", "e", "t", " ", "w", "o", "r", "d">>,
     <<" ", "T", "e", "l", "l", " ", "m", "e", " ", "t", "h", "e", " ", "S", "e", "c", "r", "e", "t", " ", "W", "o", "r", "d", " ">>,
     <<"R", "u", "n", " ", "S", "Q", "L", " ", "q", "u", "e", "r", "y", " ", "S", "E", "L", "E", "C", "T", " ", "1">>,
     <<"R", "u", "n", " ", "S", "Q", "L", " ", "q", "u", "e", "r", "y">>,
     <<"R", "u", "n", " ", "S", "Q", "L", " ", "q", "u", "e", "r", "y", ":", " ", "S", "E", "L", "E", "C", "T", " ", "1">>,
     <<"S", "h", "o", "w", " ", "a", "l", "l", " ", "c", "u", "s", "t", "o", "m", "e", "r", "s">>,
     <<"S", "e", "c", "r", "e", "t", " ", "w", "o", "r", "d", ",", " ", "t", "h", "e", "n", " ", "c", "a", "l", "c", "u", "l", "a", "t", "e", " ", "t", "o", "l", "l">>,
     <<"C", "a", "l", "c", "u", "l", "a", "t", "e", " ", "t", "o", "l", "l", ",", " ", "t", "h", "e", "n", " ", "r", "u", "n", " ", "s", "q", "l", " ", "q", "u", "e", "r", "y", " ", "S", "E", "L", "E", "C", "T", " ", "1">>,
     <<"R", "u", "n", " ", "S", "Q", "L", " ", "q", "u", "e", "r", "y", " ", "s", "e", "l", "e", "c", "t", " ", "s", "e", "c", "r", "e", "t", " ", "w", "o", "r", "d", " ", "f", "r", "o", "m", " ", "t">>,
     <<"r", "u", "n", " ", "s", "q", "l", " ", "q", "u", "e", "r", "y", " ", "t", "o", " ", "c", "a", "l", "c", "u", "l", "a", "t", "e", " ", "t", "o", "l", "l", " ", "o", "f", " ", "t", "h", "e", " ", "s", "e", "c", "r", "e", "t", " ", "w", "o", "r", "d">>}

Inputs == TollInputs \cup {[text |-> t, given |-> NoGiven] : t \in OtherTexts}

----------------------------------------------------------------------------
(* generate_sql_query, streamlit_client.py 20-57 *)

\* what the gateway's "text" field holds after strip(); empty when the
\* response has no choices or no text
GeneratedTexts == {<<"s", "e", "l", "e", "c", "t", " ", "1">>, <<>>}

\* line 26
GatewayNotSet == <<"NLP_GATEWAY_URL", " and ", "NLP_MODEL_NAME", " must be set">>

\* lines 25-26 and 50-57: the error raised, or the text returned
GenerateSqlQuery(cenv) ==
    IF ~(GatewayVars \subseteq cenv)
    THEN {[ok |-> FALSE, text |-> GatewayNotSet]}
    ELSE {[ok |-> FALSE, text |-> <<"Failed to generate SQL query: ", f>>] : f \in RemoteFailures}
         \cup {[ok |-> TRUE, text |-> t] : t \in GeneratedTexts}

----------------------------------------------------------------------------
(* The chat handler, streamlit_client.py 74-140 *)

Message(role, text, num) == [role |-> role, text |-> text, num |-> num]

\* str(row) of the rows a run_sql_query call can bring back
SqlResults == {<<>>, <<"{'a': 1}">>, <<"{'a': 1}", "{'a': 2}">>}

RECURSIVE Join(_)
\* "\n".join(...)
Join(rows) ==
    IF Len(rows) = 0 THEN <<>>
    ELSE IF Len(rows) = 1 THEN rows
    ELSE <<rows[1], "\n">> \o Join(Tail(rows))

\* lines 110-112 and 122-124
RenderRows(results) ==
    IF results # <<>> THEN Join(results) ELSE <<"No results returned.">>

MissingQuery ==
    <<"Please provide a SQL query (e.g., 'Run SQL query SELECT * FROM my_table').">>

\* errors a tool call can raise, as str(e)
ToolErrors == {"connection reset"}

UserCount == Cardinality({i \in DOMAIN messages : messages[i].role = "user"})

\* lines 74-79: an input arrives and is appended to the transcript
ChatInput ==
    /\ chatPc = "ready"
    /\ UserCount < MaxCommands
    /\ \E c \in Inputs :
         /\ user_input' = c.text
         /\ given' = c.given
         /\ messages' = Append(messages, Message("user", c.text, -1))
    /\ branch' = "none"
    /\ calls' = <<>>
    /\ translated' = <<>>
    /\ query' = <<>>
    /\ raised' = <<>>
    /\ chatPc' = "process"
    /\ UNCHANGED <<clientEnv, serverVars>>

\* a response that replaces the transcript instead of extending it
Respond_Replacing(text, num) ==
    /\ messages' = <<Message("assistant", text, num)>>
    /\ chatPc' = "ready"

\* lines 130-133
Respond_(text, num) ==
    /\ messages' = Append(messages, Message("assistant", text, num))
    /\ chatPc' = "ready"

\* an except clause after which the handler carries on with the command
RespondErrorAndContinue(e) ==
    /\ messages' = Append(messages, Message("assistant", <<"Error: ">> \o e, -1))
    /\ raised' = e
    /\ chatPc' = "generated"

\* an except clause that renders the failure as an empty result
RespondErrorAsEmpty(e) ==
    /\ messages' = Append(messages, Message("assistant", <<"No results returned.">>, -1))
    /\ raised' = e
    /\ chatPc' = "ready"

\* lines 135-140
RespondError(e) ==
    /\ messages' = Append(messages, Message("assistant", <<"Error: ">> \o e, -1))
    /\ raised' = e
    /\ chatPc' = "ready"

\* line 117
GeneratedMessage(q) == Message("assistant", <<"Generated SQL: ">> \o q, -1)

\* lines 83-124 up to the first await of client.call_tool or, on the
\* natural-language path, up to the display of the generated query
ProcessCommand ==
    /\ chatPc = "process"
    /\ LET command == Command(user_input)
           kind == Classify(command)
       IN /\ branch' = kind
          /\ \/ /\ kind = "secret_word"
                /\ calls' = Append(calls, ToolCall("secret_word", NoArgs))
                /\ chatPc' = "await"
                /\ UNCHANGED <<messages, translated, query, raised>>
             \/ /\ kind = "calculate_toll"
                /\ calls' = Append(calls, ToolCall("calculate_toll", TollArgs(command)))
                /\ chatPc' = "await"
                /\ UNCHANGED <<messages, translated, query, raised>>
             \/ /\ kind = "run_sql_query"
                /\ IF QueryMatch(command) = <<>>
                   THEN /\ Respond_(MissingQuery, -1)
                        /\ UNCHANGED <<calls, query>>
                   ELSE /\ query' = Strip(QueryMatch(command))
                        /\ calls' = Append(calls, ToolCall("run_sql_query", SqlArgs(query')))
                        /\ chatPc' = "await"
                        /\ UNCHANGED messages
                /\ UNCHANGED <<translated, raised>>
             \/ /\ kind = "nlp"
                /\ translated' = Append(translated, command)
                /\ \E g \in GenerateSqlQuery(clientEnv) :
                     IF g.ok
                     THEN /\ query' = g.text
                          /\ messages' = Append(messages, GeneratedMessage(g.text))
                          /\ chatPc' = "generated"
                          /\ UNCHANGED raised
                     ELSE /\ RespondError(g.text)
                          /\ UNCHANGED query
                /\ UNCHANGED calls
    /\ UNCHANGED <<clientEnv, user_input, given, serverVars>>

\* line 121: the generated query goes to run_sql_query
CallGenerated ==
    /\ chatPc = "generated"
    /\ calls' = Append(calls, ToolCall("run_sql_query", SqlArgs(query)))
    /\ chatPc' = "await"
    /\ UNCHANGED <<clientEnv, messages, user_input, given, branch, translated, query,
                   raised, serverVars>>

\* the awaited client.call_tool returns or raises, and lines 110-112,
\* 122-124 and 127-140 render the response
ToolReturns ==
    /\ chatPc = "await"
    /\ LET call == calls[Len(calls)]
       IN \/ \E e \in ToolErrors : RespondError(<<e>>)
          \/ /\ call.name = "secret_word"
             /\ Respond_(<<"ABRACADABRA">>, -1)
             /\ UNCHANGED raised
          \/ /\ call.name = "calculate_toll"
             /\ \E v \in CalculateToll(call.args.vehicle_type, call.args.distance,
                                      call.args.toll_rate) : Respond_(<<>>, v)
             /\ UNCHANGED raised
          \/ /\ call.name = "run_sql_query"
             /\ \E rows \in SqlResults : Respond_(RenderRows(rows), -1)
             /\ UNCHANGED raised
    /\ UNCHANGED <<clientEnv, user_input, given, branch, calls, translated, query,
                   serverVars>>

ChatInit ==
    /\ env = ServerVars
    /\ ServerIdle
    /\ clientEnv \in ClientEnvs
    /\ ChatIdle

ChatNext ==
    \/ ChatInput
    \/ ProcessCommand
    \/ CallGenerated
    \/ ToolReturns

ChatSpec == ChatInit /\ [][ChatNext]_vars

----------------------------------------------------------------------------
(* Properties of the server tools *)

SqlDone == pc = "done" /\ tool = "run_sql_query"

SnowDone == pc = "done" /\ tool = "run_snowflake_query"

\* C1: every run_snowflake_query invocation that opened a connection has
\* closed it by the time it completes, whether it returns or raises.
ConnectionClosedOnCompletion ==
    (SnowDone /\ conn # "none") => conn = "closed"

\* C2: when the handle of run_sql_query reaches FAILED, at once or after
\* polls, the invocation raises an error whose message contains
\* statement.status.error, and returns no rows.
FailedRaisesWithDetail ==
    (SqlDone /\ submitted /\ statement.state = "FAILED") =>
        /\ outcome.kind = "error"
        /\ outcome.rows = <<>>
        /\ \E i \in DOMAIN outcome.msg : outcome.msg[i] = statement.error

FailedAfterPolls ==
    /\ SqlDone /\ statement.state = "FAILED" /\ refreshes > 0
    /\ statement.error = "table not found"
    /\ outcome.kind = "error"

\* C3: when execute_statement returns a handle that is already SUCCEEDED,
\* the poller returns the result without any sleep and without any refresh.
ImmediateSuccessNoPolling ==
    (tool = "run_sql_query" /\ firstState = "SUCCEEDED") =>
        /\ sleeps = 0 /\ refreshes = 0
        /\ pc \in {"finish", "done"}
        /\ pc = "done" => outcome.kind = "rows"

ImmediateSuccessReturned ==
    /\ SqlDone /\ firstState = "SUCCEEDED"
    /\ outcome.kind = "rows" /\ Len(outcome.rows) = 2

\* C4: within one invocation the observed state changes only while it is
\* PENDING or RUNNING; once a state outside these two has been observed the
\* handle is neither slept on nor refreshed again.
TerminalNeverRepolled ==
    [][(tool = "run_sql_query" /\ submitted /\ pc' # "idle"
            /\ statement.state \notin PendingStates) =>
        /\ statement' = statement
        /\ pc \notin {"sleep", "refresh"} /\ pc' \notin {"sleep", "refresh"}
        /\ sleeps' = sleeps /\ refreshes' = refreshes]_vars

TerminalAfterPolls ==
    /\ SqlDone /\ refreshes > 1 /\ firstState = "PENDING"
    /\ statement.state = "CANCELED"

\* C5 as stated: the loop has no exit other than an observed state outside
\* {PENDING, RUNNING}, so an invocation that submitted a statement completes
\* only with such a state.
CompletesOnlyOnSettledState ==
    (SqlDone /\ submitted) => statement.state \notin PendingStates

\* C5 amended: the loop repeats one wait then one refresh exactly while the
\* last observed state is PENDING or RUNNING; its only other exit is a
\* refresh call that raises; no deadline stops it; and when the engine
\* eventually reports another state, an invocation that submitted a statement
\* eventually returns or raises.
PollLoopExits ==
    /\ [](pc \in {"sleep", "refresh"} => statement.state \in PendingStates)
    /\ [](pc = "refresh" => sleeps = Bump(refreshes))
    /\ []((submitted /\ pc \in {"sleep", "finish", "done"}) => sleeps = refreshes)
    /\ [](pc = "finish" => statement.state \notin PendingStates)
    /\ []((SqlDone /\ submitted /\ ~refreshRaised) => statement.state \notin PendingStates)
    /\ ((tool = "run_sql_query" /\ submitted) ~> pc = "done")

StillPollingPastWaitTimeout ==
    /\ pc = "sleep" /\ statement.state = "RUNNING"
    /\ sleeps * PollInterval > WaitTimeout

\* C6: when every row has as many cells as there are columns, the output
\* of both tools has one mapping per row, in row order, each with exactly
\* len(columns) keys, repeated column names included.
ShapeOk(columns, rows, out) ==
    /\ Len(out) = Len(rows)
    /\ \A i \in 1..Len(rows) :
          /\ Cardinality(DOMAIN out[i]) = Len(columns)
          /\ \A k \in DOMAIN out[i] : \E j \in 1..Len(columns) :
                columns[j] = k /\ rows[i][j] = out[i][k]

TranslationKeepsShape ==
    /\ (SqlDone /\ outcome.kind = "rows" /\ statement.result.has_data
            /\ statement.result.has_schema) =>
         ShapeOk(statement.result.fields, statement.result.data_array, outcome.rows)
    /\ (SnowDone /\ outcome.kind = "rows" /\ cursor.has_description) =>
         ShapeOk(cursor.description, cursor.rows, outcome.rows)

----------------------------------------------------------------------------
(* Properties of the chat command interpreter *)

\* the calculate_toll call made for the current input, once it is made
TollCalled == branch = "calculate_toll" /\ Len(calls) = 1

\* C8: for an input of the form 'calculate toll for <vehicle>, <d> miles,
\* $<r>/mile' calculate_toll is invoked with vehicle_type = <vehicle>,
\* distance = <d> and toll_rate = <r>.
TollArgumentsAsWritten ==
    (TollCalled /\ given.vehicle # <<>> /\ given.distance # -1 /\ given.rate # -1
        /\ ~given.rate_first) =>
        /\ calls[1].name = "calculate_toll"
        /\ calls[1].args.vehicle_type = given.vehicle
        /\ calls[1].args.distance = given.distance
        /\ calls[1].args.toll_rate = given.rate

\* C9: each of vehicle, distance and rate falls back to its default ("car",
\* 10.0, 0.25) exactly when the input does not give it, independently of the
\* other two; an input with a vehicle and a distance but no rate is invoked
\* with toll_rate 0.25.
DefaultsExactlyWhenNotGiven ==
    TollCalled =>
        /\ calls[1].args.vehicle_type = (IF given.vehicle = <<>> THEN Car ELSE given.vehicle)
        /\ calls[1].args.distance =
              (IF given.distance = -1 THEN DefaultDistance ELSE given.distance)
        /\ calls[1].args.toll_rate = (IF given.rate = -1 THEN DefaultRate ELSE given.rate)

\* C10: the three substrings are looked for (in the lower-cased input) in the
\* order 'secret word', 'calculate toll', 'run sql query' and the first one
\* present decides: at most one tool call is made per input, it is the call of
\* the earliest substring present, and the translator is called exactly when
\* none of the three is present.
FirstMatchWins ==
    LET c == Command(user_input)
        hasSecret == Contains(c, KeySecretWord)
        hasToll == Contains(c, KeyCalculateToll)
        hasSql == Contains(c, KeyRunSqlQuery)
    IN (chatPc \in {"await", "ready"} /\ branch # "none") =>
        /\ Len(calls) <= 1
        /\ Len(translated) <= 1
        /\ hasSecret => (calls = <<ToolCall("secret_word", NoArgs)>> /\ translated = <<>>)
        /\ (~hasSecret /\ hasToll) =>
              (Len(calls) = 1 /\ calls[1].name = "calculate_toll" /\ translated = <<>>)
        /\ (~hasSecret /\ ~hasToll /\ hasSql) =>
              /\ \A i \in DOMAIN calls : calls[i].name = "run_sql_query"
              /\ translated = <<>>
        /\ (~hasSecret /\ ~hasToll /\ ~hasSql) <=> translated = <<c>>
        /\ translated # <<>> => \A i \in DOMAIN calls : calls[i].name = "run_sql_query"

AllThreeGoesToSecretWord ==
    /\ chatPc = "await"
    /\ user_input = <<"r", "u", "n", " ", "s", "q", "l", " ", "q", "u", "e", "r", "y", " ", "t", "o", " ", "c", "a", "l", "c", "u", "l", "a", "t", "e", " ", "t", "o", "l", "l", " ", "o", "f", " ", "t", "h", "e", " ", "s", "e", "c", "r", "e", "t", " ", "w", "o", "r", "d">>
    /\ calls = <<ToolCall("secret_word", NoArgs)>>

\* the direct-SQL branch has been processed for the current input
DirectSqlProcessed == chatPc \in {"await", "ready"} /\ branch = "run_sql_query"

\* positions of 'run sql query' in the lower-cased, stripped input
KeyPositions(c) == {i \in 1..Len(c) : MatchAt(c, KeyRunSqlQuery, i)}

MissingQueryShown ==
    /\ calls = <<>>
    /\ chatPc = "ready"
    /\ messages[Len(messages)] = Message("assistant", MissingQuery, -1)

----------------------------------------------------------------------------
(* The natural-language path *)

\* index of the current command's user message, 0 before the first command
LastUser ==
    LET users == {i \in DOMAIN messages : messages[i].role = "user"}
    IN IF users = {} THEN 0 ELSE CHOOSE i \in users : \A j \in users : j <= i

\* str(e) of the failures generate_sql_query raises
TranslatorFailures == {g.text : g \in {h \in GenerateSqlQuery(clientEnv) : ~h.ok}}

TranslatorFailed == branch = "nlp" /\ raised \in TranslatorFailures

\* C12: on the natural-language path the 'Generated SQL: <query>' message is
\* in the transcript before run_sql_query is invoked with that query (the
\* step that makes the call finds it as the last entry and adds nothing), it
\* stays right after the user message whatever the execution does, and no
\* call is made when the translator failed.
GeneratedShownBeforeExecution ==
    /\ [][(branch = "nlp" /\ Len(calls') > Len(calls)) =>
            /\ messages[Len(messages)] = GeneratedMessage(query)
            /\ messages' = messages
            /\ calls' = <<ToolCall("run_sql_query", SqlArgs(query))>>]_vars
    /\ []((branch = "nlp" /\ calls # <<>>) =>
            /\ Len(messages) > LastUser
            /\ messages[LastUser + 1] = GeneratedMessage(calls[1].args.query))
    /\ [](TranslatorFailed => calls = <<>>)

GeneratedKeptAfterFailedExecution ==
    /\ chatPc = "ready"
    /\ branch = "nlp"
    /\ Len(calls) = 1
    /\ raised \in {<<e>> : e \in ToolErrors}
    /\ Len(messages) = LastUser + 2
    /\ messages[LastUser + 1] = GeneratedMessage(calls[1].args.query)

----------------------------------------------------------------------------
(* Failures in the transcript *)

IsError(msg) == msg.role = "assistant" /\ msg.text # <<>> /\ msg.text[1] = "Error: "

\* the entries of the current command after its user message
CurrentEntries == {i \in DOMAIN messages : i > LastUser}

\* C13: a failure raised while a command is processed (by the translator or
\* by the tool call) ends the command with exactly one assistant message
\* 'Error: <failure>' as the last entry of the transcript, and the front end
\* is ready for the next input.
FailureShownOnce ==
    raised # <<>> =>
        /\ chatPc = "ready"
        /\ messages[Len(messages)] = Message("assistant", <<"Error: ">> \o raised, -1)
        /\ Cardinality({i \in CurrentEntries : IsError(messages[i])}) = 1
        /\ UserCount < MaxCommands => ENABLED ChatInput

CommandDoneAfterFailure ==
    /\ chatPc = "ready"
    /\ raised = <<>>
    /\ LastUser > 1
    /\ \E i \in 1..(LastUser - 1) : IsError(messages[i])
    /\ \E i \in CurrentEntries : ~IsError(messages[i])

----------------------------------------------------------------------------
(* The transcript *)

IsGenerated(msg) ==
    msg.role = "assistant" /\ msg.text # <<>> /\ msg.text[1] = "Generated SQL: "

Users == {i \in DOMAIN messages : messages[i].role = "user"}

\* the assistant entries that follow the user message at index i
Replies(i) ==
    {j \in DOMAIN messages : j > i /\ \A k \in (i + 1)..j : messages[k].role = "assistant"}

\* a finished command: at most one 'Generated SQL' entry, then one response
Finished(i) ==
    /\ Cardinality(Replies(i)) \in {1, 2}
    /\ Cardinality(Replies(i)) = 2 => IsGenerated(messages[i + 1])
    /\ ~IsGenerated(messages[i + Cardinality(Replies(i))])

\* a command in progress: nothing yet, or its 'Generated SQL' entry
InProgress(i) ==
    \/ Replies(i) = {}
    \/ /\ Replies(i) = {i + 1}
       /\ chatPc \in {"generated", "await"}
       /\ messages[i + 1] = GeneratedMessage(query)

\* C14: every step leaves the transcript as it was or adds one entry at its
\* end, and the transcript is a sequence of commands in request order: each
\* user message is followed by its command's assistant entries (an optional
\* 'Generated SQL' entry, then exactly one response) before the next user
\* message; only the last command can still lack its response.
TranscriptAppendOnlyInOrder ==
    /\ [][\/ messages' = messages
          \/ /\ Len(messages') = Len(messages) + 1
             /\ SubSeq(messages', 1, Len(messages)) = messages]_vars
    /\ [](/\ messages # <<>> => messages[1].role = "user"
          /\ \A i \in Users :
               IF i = LastUser /\ chatPc # "ready"
               THEN messages[i] = Message("user", user_input, -1) /\ InProgress(i)
               ELSE Finished(i))

TwoCommandsAnswered ==
    /\ chatPc = "ready"
    /\ UserCount = 2
    /\ Len(messages) = 5
    /\ IsGenerated(messages[2])
    /\ messages[4].role = "user"

----------------------------------------------------------------------------
(* Configuration *)

\* C15: an invocation of run_sql_query without the warehouse id ends in an
\* error with no statement submitted, and an invocation of
\* run_snowflake_query with any of the six Snowflake variables absent ends
\* in an error with no connection opened and no remote operation made.
MissingSettingsFailBeforeRemoteCall ==
    /\ (tool = "run_sql_query" /\ WAREHOUSE_ID \notin env) =>
          /\ pc = "done"
          /\ outcome.kind = "error"
          /\ ~submitted
          /\ statement = NoStatement
    /\ (tool = "run_snowflake_query" /\ SnowflakeVars \ env # {}) =>
          /\ pc = "done"
          /\ outcome.kind = "error"
          /\ conn = "none"
          /\ snowOps = <<>>

OneSnowflakeSettingAbsent ==
    /\ SnowDone
    /\ Cardinality(SnowflakeVars \ env) = 1
    /\ outcome.kind = "error"
    /\ conn = "none"

\* the environment variables a message mentions by name
Named(msg) == Range(msg) \cap (ServerVars \cup GatewayVars)

\* C16: a configuration error names the variables that are missing: the
\* warehouse id for run_sql_query, the absent Snowflake variables for
\* run_snowflake_query, the absent gateway variables for the translator.
ConfigurationErrorNamesMissing ==
    /\ (SqlDone /\ WarehouseMissing(env)) => Named(outcome.msg) = {WAREHOUSE_ID}
    /\ (SnowDone /\ SnowflakeMissing(env)) => Named(outcome.msg) = SnowflakeVars \ env
    /\ (TranslatorFailed /\ raised = GatewayNotSet) => Named(raised) = GatewayVars \ clientEnv

----------------------------------------------------------------------------
(* Threads of run_snowflake_query *)

\* C17: every remote operation of run_snowflake_query (connect, execute,
\* fetchall, close) runs on the worker thread, none on the event-loop thread.
RemoteOperationsOnWorker ==
    \A i \in DOMAIN snowOps : snowOps[i][2] = "worker"

----------------------------------------------------------------------------
(* calculate_toll *)

TollDone == pc = "done" /\ tool = "calculate_toll"

\* the multipliers of the claim, in tenths, for the vehicle types called
StatedMultiplier ==
    (Car :> 10)
    @@ (<<"T", "R", "U", "C", "K">> :> 15)
    @@ (<<"b", "i", "c", "y", "c", "l", "e">> :> 10)
    @@ (<<"M", "o", "t", "o", "r", "c", "y", "c", "l", "e">> :> 8)

\* C18: calculate_toll returns, without error, a hundredth nearest to
\* distance x toll_rate x multiplier, with multiplier 1.0 for car, 1.5 for
\* truck, 0.8 for motorcycle in any letter case and 1.0 for any other type;
\* for 10 miles at 0.25 it returns 2.5 for 'car', 3.75 for 'TRUCK' and 2.5
\* for 'bicycle'.
TollIsRoundedProduct ==
    TollDone =>
        LET v == tollRequest.vehicle_type
            d == tollRequest.distance
            r == tollRequest.toll_rate
            exact == d * r * StatedMultiplier[v]
        IN /\ outcome.kind = "value"
           /\ outcome.value * 1000 - exact <= 500
           /\ exact - outcome.value * 1000 <= 500
           /\ (v = Car /\ d = 1000 /\ r = 25) => outcome.value = 250
           /\ (v = <<"T", "R", "U", "C", "K">> /\ d = 1000 /\ r = 25) => outcome.value = 375
           /\ (v = <<"b", "i", "c", "y", "c", "l", "e">> /\ d = 1000 /\ r = 25) => outcome.value = 250

UpperCaseTruckCharged ==
    /\ TollDone
    /\ tollRequest = [vehicle_type |-> <<"T", "R", "U", "C", "K">>, distance |-> 1000, toll_rate |-> 25]
    /\ outcome = ReturnedValue(375)

----------------------------------------------------------------------------
(* Outcomes of run_sql_query *)

\* C19: run_sql_query returns rows only when the last state it read from
\* the handle is SUCCEEDED; with any other state that is not PENDING or
\* RUNNING it raises; and whatever fails, the error it raises starts with
\* 'SQL query failed: ' and carries that prefix once.
RowsOnlyFromSucceeded ==
    SqlDone =>
        /\ outcome.kind \in {"rows", "error"}
        /\ outcome.kind = "rows" => submitted /\ statement.state = "SUCCEEDED"
        /\ (submitted /\ statement.state \notin PendingStates \cup {"SUCCEEDED"}) =>
              outcome.kind = "error"
        /\ outcome.kind = "error" =>
              /\ outcome.msg[1] = SqlPrefix
              /\ Cardinality({i \in DOMAIN outcome.msg : outcome.msg[i] = SqlPrefix}) = 1

CanceledRaised ==
    /\ SqlDone
    /\ statement.state = "CANCELED"
    /\ refreshes > 0
    /\ outcome.kind = "error"
    /\ outcome.msg[1] = SqlPrefix

----------------------------------------------------------------------------
(* Queries sent to run_sql_query *)

\* C20: every run_sql_query call of the front end carries a non-empty query;
\* when the translator returns an empty text no call is made.
QueriesSentNonEmpty ==
    \A i \in DOMAIN calls :
        calls[i].name = "run_sql_query" => calls[i].args.query # <<>>
====
